---- MODULE Spec2Model ----
(***************************************************************************)
(* Model of the sandboxed file-access core of src/server.ts: the path      *)
(* guard (resolveInRepo), the filename deny check (denyByName), and the    *)
(* three tool handlers repo.tree, repo.read and repo.search.               *)
(*                                                                         *)
(* Strings are sequences of one-character strings, so that startsWith,     *)
(* split, trim, basename and the regular-expression tests are computed on  *)
(* characters as the code computes them.  Every await of a handler is a    *)
(* step of its own; what the file system answers at a step (fast-glob's    *)
(* listing, stat's size or ENOENT, readFile's text) is the environment's   *)
(* choice from bounded sets.                                               *)
(***************************************************************************)
EXTENDS Integers, Sequences, FiniteSets, TLC

VARIABLES pc, args, abs, files, fi, lines, li, lastIndex, results,
          scanned, io, tested, entries, result

vars == <<pc, args, abs, files, fi, lines, li, lastIndex, results,
          scanned, io, tested, entries, result>>

-----------------------------------------------------------------------------
(* Bounds of the model *)

MaxSegs == 2
MaxLine == 3
MaxTextLines == 3
MaxMatchesBound == 2
MaxExtraEntries == 2

-----------------------------------------------------------------------------
(* Program constants *)

MAX_FILE_BYTES == 256 * 1024
MAX_TREE_ENTRIES == 2000
MAX_SEARCH_MATCHES == 200

\* REPO_ROOT, fixed at process start: "/r/p"
REPO_ROOT == <<"/", "r", "/", "p">>

\* The directory and extension parts of DENY_GLOBS
\* ("**/<dir>/**" and "**/*.<ext>").
DenyDirs ==
  { <<"n","o","d","e","_","m","o","d","u","l","e","s">>,
    <<".","g","i","t">>, <<".","n","e","x","t">>,
    <<"d","i","s","t">>, <<"b","u","i","l","d">> }

DenyExts ==
  { <<"l","o","c","k">>, <<"p","n","g">>, <<"j","p","g">>,
    <<"j","p","e","g">>, <<"g","i","f">>, <<"p","d","f">>,
    <<"z","i","p">>, <<"i","c","o">> }

-----------------------------------------------------------------------------
(* String helpers (JavaScript String / Array methods) *)

Min(a, b) == IF a < b THEN a ELSE b
Max(a, b) == IF a > b THEN a ELSE b

Range(s) == { s[i] : i \in 1..Len(s) }

\* s.startsWith(p)
StartsWith(s, p) == Len(s) >= Len(p) /\ SubSeq(s, 1, Len(p)) = p

\* the /i flag: letters compare by their lower-case form
ToLower(c) ==
  CASE c = "E" -> "e" [] c = "N" -> "n" [] c = "V" -> "v"
    [] c = "T" -> "t" [] c = "O" -> "o" [] c = "D" -> "d"
    [] c = "X" -> "x" [] OTHER -> c

LowerStr(s) == [i \in 1..Len(s) |-> ToLower(s[i])]

\* s.split(sep) for a one-character separator: the pieces between separators
RECURSIVE SplitAt(_, _, _, _)
SplitAt(s, sep, i, cur) ==
  IF i > Len(s) THEN <<cur>>
  ELSE IF s[i] = sep THEN <<cur>> \o SplitAt(s, sep, i + 1, <<>>)
  ELSE SplitAt(s, sep, i + 1, Append(cur, s[i]))

Split(s, sep) == SplitAt(s, sep, 1, <<>>)

\* parts.join(sep)
RECURSIVE Join(_, _)
Join(parts, sep) ==
  IF Len(parts) = 0 THEN <<>>
  ELSE IF Len(parts) = 1 THEN parts[1]
  ELSE parts[1] \o sep \o Join(Tail(parts), sep)

-----------------------------------------------------------------------------
(* node:path (POSIX) *)

\* normalizeString(path, allowAboveRoot = false): drop "" and ".", let ".."
\* pop the last kept segment (and vanish at the root)
RECURSIVE NormalizeSegs(_, _)
NormalizeSegs(segs, acc) ==
  IF Len(segs) = 0 THEN acc
  ELSE LET s == Head(segs) IN
    IF s = <<>> \/ s = <<".">> THEN NormalizeSegs(Tail(segs), acc)
    ELSE IF s = <<".", ".">> THEN
      NormalizeSegs(Tail(segs),
                    IF Len(acc) = 0 THEN acc ELSE SubSeq(acc, 1, Len(acc) - 1))
    ELSE NormalizeSegs(Tail(segs), Append(acc, s))

\* path.isAbsolute(p)
IsAbsolute(p) == Len(p) > 0 /\ p[1] = "/"

\* the segments of the absolute, normalized form of base/p
ResolveSegs(base, p) ==
  LET joined == IF Len(p) = 0 THEN base
                ELSE IF IsAbsolute(p) THEN p
                ELSE base \o <<"/">> \o p
  IN NormalizeSegs(Split(joined, "/"), <<>>)

\* path.resolve(base, p), base absolute
PathResolve(base, p) == <<"/">> \o Join(ResolveSegs(base, p), <<"/">>)

\* length of the longest common prefix of two segment lists
RECURSIVE CommonLen(_, _)
CommonLen(a, b) ==
  IF Len(a) = 0 \/ Len(b) = 0 \/ Head(a) # Head(b) THEN 0
  ELSE 1 + CommonLen(Tail(a), Tail(b))

\* path.relative(from, to): one ".." per segment of from below the common
\* ancestor, then the segments of to below it
PathRelative(from, to) ==
  LET f == ResolveSegs(<<"/">>, from)
      t == ResolveSegs(<<"/">>, to)
      c == CommonLen(f, t)
      ups == [i \in 1..(Len(f) - c) |-> <<".", ".">>]
  IN Join(ups \o SubSeq(t, c + 1, Len(t)), <<"/">>)

\* path.basename(p): the part after the last "/", trailing "/" ignored
RECURSIVE StripTrailingSlashes(_)
StripTrailingSlashes(p) ==
  IF Len(p) > 0 /\ p[Len(p)] = "/"
  THEN StripTrailingSlashes(SubSeq(p, 1, Len(p) - 1))
  ELSE p

PathBasename(p) ==
  LET parts == Split(StripTrailingSlashes(p), "/")
  IN parts[Len(parts)]

-----------------------------------------------------------------------------
(* Path guard and deny policy *)

\* a faulty variant of the test below: the ".." half is missing
EscapesRoot_NoDotDot(rel) == IsAbsolute(rel)

\* the test of resolveInRepo on rel
EscapesRoot(rel) == StartsWith(rel, <<".", ".">>) \/ IsAbsolute(rel)

\* resolveInRepo(userPath): the absolute path, or the thrown error
resolveInRepo(userPath) ==
  LET a == PathResolve(REPO_ROOT, userPath)
      rel == PathRelative(REPO_ROOT, a)
  IN IF EscapesRoot(rel)
     THEN [ok |-> FALSE, error |-> "PathEscape", abs |-> <<>>]
     ELSE [ok |-> TRUE, error |-> "", abs |-> a]

\* DENY_FILES = [/^\.env/i]
DENY_FILES_test(base) ==
  Len(base) >= 4 /\ LowerStr(SubSeq(base, 1, 4)) = <<".", "e", "n", "v">>

denyByName(p) == DENY_FILES_test(PathBasename(p))

-----------------------------------------------------------------------------
(* File reader *)

\* txt.split(/\r?\n/): split at "\n"; a "\r" right before the "\n" belongs
\* to the separator
StripCR(piece) ==
  IF Len(piece) > 0 /\ piece[Len(piece)] = "\r"
  THEN SubSeq(piece, 1, Len(piece) - 1)
  ELSE piece

SplitLines(txt) ==
  LET pieces == Split(txt, "\n")
  IN [i \in 1..Len(pieces) |->
        IF i < Len(pieces) THEN StripCR(pieces[i]) ELSE pieces[i]]

\* Array.prototype.slice(start, end) for start, end >= 0: indices are
\* 0-based, end is exclusive, both are clamped to the length
ArraySlice(arr, start, end) ==
  LET k == Min(start, Len(arr))
      f == Min(end, Len(arr))
  IN IF f <= k THEN <<>> ELSE SubSeq(arr, k + 1, f)

\* a faulty variant of the index below: lines.slice(s, e)
SliceFrom_OffByOne(s) == s

\* the first index of lines.slice(s - 1, e)
SliceFrom(s) == s - 1

\* readTextFileSlice after stat and readFile: startLine / endLine of 0 stand
\* for an omitted (undefined) argument, which zod's min(1) never lets through
\* as a number
readTextFileSlice(txt, startLine, endLine) ==
  LET ls == SplitLines(txt)
      s == Max(1, IF startLine = 0 THEN 1 ELSE startLine)
      e == Min(Len(ls), IF endLine = 0 THEN Len(ls) ELSE endLine)
      slice == ArraySlice(ls, SliceFrom(s), e)
  IN [status |-> "ok", text |-> Join(slice, <<"\n">>),
      totalLines |-> Len(ls), startLine |-> s, endLine |-> e]

-----------------------------------------------------------------------------
(* Regular expression: new RegExp(query, "gmi") and rx.test *)

\* The queries of the model are letters, which match themselves, and "(",
\* which opens a group that is never closed: the constructor throws.
RegExpValid(query) == "(" \notin Range(query)

\* the 0-based positions at or after from where query occurs in str (flag i)
Occurrences(query, str, from) ==
  { i \in from..(Len(str) - Len(query)) :
      LowerStr(SubSeq(str, i + 1, i + Len(query))) = LowerStr(query) }

\* rx.test(str) with the g flag: the search starts at lastIndex; a match
\* moves lastIndex past it, a failure resets lastIndex to 0
RegExpTest(query, str, idx) ==
  LET occ == Occurrences(query, str, idx)
  IN IF occ = {} THEN [matched |-> FALSE, lastIndex |-> 0]
     ELSE LET i == CHOOSE x \in occ : \A y \in occ : x <= y
          IN [matched |-> TRUE, lastIndex |-> i + Len(query)]

\* String.prototype.trim()
IsSpace(c) == c \in {" ", "\t", "\r", "\n"}

RECURSIVE TrimStart(_)
TrimStart(s) ==
  IF Len(s) > 0 /\ IsSpace(s[1]) THEN TrimStart(Tail(s)) ELSE s

RECURSIVE TrimEnd(_)
TrimEnd(s) ==
  IF Len(s) > 0 /\ IsSpace(s[Len(s)])
  THEN TrimEnd(SubSeq(s, 1, Len(s) - 1)) ELSE s

Trim(s) == TrimEnd(TrimStart(s))

-----------------------------------------------------------------------------
(* fast-glob over the repository *)

EndsWith(s, p) ==
  Len(s) >= Len(p) /\ SubSeq(s, Len(s) - Len(p) + 1, Len(s)) = p

IsDotName(seg) == Len(seg) > 0 /\ seg[1] = "."

\* ignore: DENY_GLOBS -- a path with a denied directory among its segments
\* ("**/<dir>/**") or a base name ending in a denied extension ("**/*.<ext>")
MatchesDenyGlob(p) ==
  LET segs == Split(p, "/")
  IN \/ \E i \in 1..Len(segs) : segs[i] \in DenyDirs
     \/ \E x \in DenyExts : EndsWith(segs[Len(segs)], <<".">> \o x)

\* the files of the repository, in fast-glob's enumeration order
RepoFiles ==
  << <<".","e","n","v">>,
     <<"a",".","t","s">>,
     <<"s","r","c","/","b",".","t","s">>,
     <<"s","r","c","/",".","E","n","v",".","l">>,
     <<"n","o","d","e","_","m","o","d","u","l","e","s","/","m",".","j","s">>,
     <<"p","i","c",".","p","n","g">>,
     <<".",".","h">> >>

\* its directories
RepoDirs ==
  << <<"s","r","c">>,
     <<"n","o","d","e","_","m","o","d","u","l","e","s">> >>

\* glob: z.string().default("**/*.{ts,tsx,js,jsx,md,json,css,scss,py,go}")
DefaultGlob ==
  [kind |-> "ext",
   exts |-> { <<"t","s">>, <<"t","s","x">>, <<"j","s">>, <<"j","s","x">>,
              <<"m","d">>, <<"j","s","o","n">>, <<"c","s","s">>,
              <<"s","c","s","s">>, <<"p","y">>, <<"g","o">> }]

\* "{.env,a.ts}": two paths by name
NamesGlob ==
  [kind |-> "names",
   names |-> { <<".","e","n","v">>, <<"a",".","t","s">> }]

\* "**/.[eE]nv*": the dot is written out in the pattern
EnvGlob == [kind |-> "env"]

Globs == { DefaultGlob, NamesGlob, EnvGlob }

\* does the glob match the path, with dot: false (a wildcard matches no
\* segment that begins with a dot; a dot written in the pattern does)
GlobMatches(glob, p) ==
  LET segs == Split(p, "/")
      base == segs[Len(segs)]
      dirsVisible == \A i \in 1..(Len(segs) - 1) : ~IsDotName(segs[i])
  IN CASE glob.kind = "ext" ->
            /\ dirsVisible /\ ~IsDotName(base)
            /\ \E x \in glob.exts : EndsWith(base, <<".">> \o x)
       [] glob.kind = "names" -> p \in glob.names
       [] glob.kind = "env" ->
            /\ dirsVisible
            /\ Len(base) >= 4
            /\ base[1] = "." /\ base[2] \in {"e", "E"}
            /\ base[3] = "n" /\ base[4] = "v"

\* fg(glob, {cwd: REPO_ROOT, onlyFiles: true, dot: false, ignore: DENY_GLOBS})
FgSearch(glob) ==
  SelectSeq(RepoFiles, LAMBDA p : GlobMatches(glob, p) /\ ~MatchesDenyGlob(p))

\* fg(["**/*"], {onlyFiles: false, dot: includeHidden, deep: depth,
\*               ignore: DENY_GLOBS}) over the repository
FgTree(depth, includeHidden) ==
  SelectSeq(RepoDirs \o RepoFiles,
            LAMBDA p :
              LET segs == Split(p, "/")
              IN /\ Len(segs) <= depth
                 /\ includeHidden \/ \A i \in 1..Len(segs) : ~IsDotName(segs[i])
                 /\ ~MatchesDenyGlob(p))

\* decimal digits of n
RECURSIVE Digits(_)
Digits(n) ==
  LET d == <<"0","1","2","3","4","5","6","7","8","9">>[(n % 10) + 1]
  IN IF n < 10 THEN <<d>> ELSE Append(Digits(n \div 10), d)

\* the same call over a large flat directory: m entries "f<j>" and, when
\* hidden entries are listed and k > 0, an entry ".Env<j>" after every k of
\* them
BigListing(m, k, includeHidden) ==
  IF includeHidden /\ k > 0
  THEN [j \in 1..(m + ((m - 1) \div k)) |->
          IF j % (k + 1) = 0
          THEN <<".", "E", "n", "v">> \o Digits(j)
          ELSE <<"f">> \o Digits(j)]
  ELSE [j \in 1..m |-> <<"f">> \o Digits(j)]

Listings(depth, includeHidden) ==
  {FgTree(depth, includeHidden)}
  \cup { BigListing(m, k, includeHidden) :
           m \in (MAX_TREE_ENTRIES - 1)..(MAX_TREE_ENTRIES + MaxExtraEntries),
           k \in IF includeHidden THEN {0, 2, 3} ELSE {0} }

-----------------------------------------------------------------------------
(* Inputs *)

\* path segments the user paths are built from
SegPool ==
  { <<".", ".">>, <<".", ".", "h">>, <<".", "E", "n", "v">>, <<"s", "r", "c">> }

RECURSIVE SegLists(_)
SegLists(n) ==
  IF n = 0 THEN {<<>>}
  ELSE LET shorter == SegLists(n - 1)
       IN shorter \cup { Append(l, x) : l \in shorter, x \in SegPool }

\* further user paths: "", ".", an absolute path inside the root, absolute
\* paths outside it, glob-denied and name-denied files, doubled and trailing
\* separators, and names that begin with dots
ExtraPaths ==
  { <<>>,
    <<".">>,
    <<"/","r","/","p","/","a",".","t","s">>,
    <<"/","r","/","p","q">>,
    <<"/","r">>,
    <<"/","e","t","c">>,
    <<"a",".","t","s">>,
    <<"s","r","c","/","/","b",".","t","s">>,
    <<"s","r","c","/",".",".","/",".",".","/",".",".","/","x">>,
    <<"n","o","d","e","_","m","o","d","u","l","e","s","/","m",".","j","s">>,
    <<"p","i","c",".","p","n","g">>,
    <<".","e","n","v","/">>,
    <<"s","r","c","/",".","e","N","V",".","l">>,
    <<".",".",".">>,
    <<".",".","e","n","v">> }

UserPaths ==
  { Join(l, <<"/">>) : l \in SegLists(MaxSegs) } \cup ExtraPaths

\* startLine / endLine: 0 is the omitted argument
LineArgs == 0..MaxLine

\* lines the texts are cut from
LineCatalog ==
  << <<"t","o","d","o">>,
     <<"t","o","d","o">>,
     <<>>,
     <<" ","x","T","O","D","O"," ">>,
     <<"t","o","d","o">>,
     <<"a","b">> >>

\* what readFile may answer: runs of at most MaxTextLines catalog lines,
\* joined by "\n" or by "\r\n"
Texts ==
  UNION { { Join(SubSeq(LineCatalog, i, j), sep) :
              j \in i..Min(Len(LineCatalog), i + MaxTextLines - 1),
              sep \in { <<"\n">>, <<"\r", "\n">> } } :
          i \in 1..Len(LineCatalog) }

\* what stat may answer for the size
Sizes == { MAX_FILE_BYTES, MAX_FILE_BYTES + 1 }

Queries == { <<"t","o","d","o">>, <<"o">>, <<"(">> }

MaxMatchesArgs == 1..Min(MaxMatchesBound, MAX_SEARCH_MATCHES)

Depths == {1, 2, 5}

-----------------------------------------------------------------------------
(* State *)

NoArgs == [op |-> "none"]
NoResult == [status |-> "none"]
Failure(kind) == [status |-> "error", error |-> kind]

IoEvent(op, path) == [op |-> op, path |-> path]

Init ==
  /\ pc = "idle"
  /\ args = NoArgs
  /\ abs = <<>>
  /\ files = <<>>
  /\ fi = 0
  /\ lines = <<>>
  /\ li = 0
  /\ lastIndex = 0
  /\ results = <<>>
  /\ scanned = <<>>
  /\ io = <<>>
  /\ tested = 0
  /\ entries = <<>>
  /\ result = NoResult

-----------------------------------------------------------------------------
(* repo.read *)

\* the handler up to its first await: resolveInRepo, then denyByName
ReadCall ==
  /\ pc = "idle"
  /\ \E p \in UserPaths, s \in LineArgs, e \in LineArgs :
       LET r == resolveInRepo(p) IN
       /\ args' = [op |-> "read", path |-> p, startLine |-> s, endLine |-> e]
       /\ IF ~r.ok
          THEN /\ result' = Failure(r.error)
               /\ pc' = "done"
               /\ abs' = abs
          ELSE IF denyByName(r.abs)
          THEN /\ result' = Failure("AccessDenied")
               /\ pc' = "done"
               /\ abs' = abs
          ELSE /\ result' = result
               /\ pc' = "read_stat"
               /\ abs' = r.abs
  /\ UNCHANGED <<files, fi, lines, li, lastIndex, results, scanned, io,
                 tested, entries>>

\* readTextFileSlice: await fs.stat(absPath), then the size cap
ReadStat ==
  /\ pc = "read_stat"
  /\ io' = Append(io, IoEvent("stat", abs))
  /\ \/ /\ result' = Failure("NotFound")
        /\ pc' = "done"
     \/ \E size \in Sizes :
          IF size > MAX_FILE_BYTES
          THEN /\ result' = Failure("TooLarge")
               /\ pc' = "done"
          ELSE /\ result' = result
               /\ pc' = "read_file"
  /\ UNCHANGED <<args, abs, files, fi, lines, li, lastIndex, results,
                 scanned, tested, entries>>

\* readTextFileSlice: await fs.readFile(absPath), then the slice
ReadFile ==
  /\ pc = "read_file"
  /\ io' = Append(io, IoEvent("readFile", abs))
  /\ \/ /\ result' = Failure("NotFound")
        /\ pc' = "done"
        /\ scanned' = scanned
     \/ \E txt \in Texts :
          /\ scanned' = Append(scanned, [path |-> abs, text |-> txt])
          /\ result' = readTextFileSlice(txt, args.startLine, args.endLine)
          /\ pc' = "done"
  /\ UNCHANGED <<args, abs, files, fi, lines, li, lastIndex, results,
                 tested, entries>>

-----------------------------------------------------------------------------
(* repo.search *)

SearchCall ==
  /\ pc = "idle"
  /\ \E q \in Queries, g \in Globs, m \in MaxMatchesArgs :
       args' = [op |-> "search", query |-> q, glob |-> g, maxMatches |-> m]
  /\ pc' = "search_glob"
  /\ UNCHANGED <<abs, files, fi, lines, li, lastIndex, results, scanned, io,
                 tested, entries, result>>

\* const files = await fg(glob, ...)
SearchGlob ==
  /\ pc = "search_glob"
  /\ files' = FgSearch(args.glob)
  /\ io' = Append(io, IoEvent("glob", REPO_ROOT))
  /\ pc' = "search_regexp"
  /\ UNCHANGED <<args, abs, fi, lines, li, lastIndex, results, scanned,
                 tested, entries, result>>

\* const rx = new RegExp(query, "gmi"); const results = []
SearchRegExp ==
  /\ pc = "search_regexp"
  /\ IF RegExpValid(args.query)
     THEN /\ lastIndex' = 0
          /\ results' = <<>>
          /\ fi' = 1
          /\ pc' = "search_loop"
          /\ result' = result
     ELSE /\ result' = Failure("InvalidPattern")
          /\ pc' = "done"
          /\ UNCHANGED <<lastIndex, results, fi>>
  /\ UNCHANGED <<args, abs, files, lines, li, scanned, io, tested, entries>>

SearchResult(res) ==
  [status |-> "ok", count |-> Len(res), matches |-> res]

\* head of the loop over files: the loop ends, or the file is skipped by
\* name, or it is resolved for the stat that follows
SearchLoop ==
  /\ pc = "search_loop"
  /\ IF fi > Len(files)
     THEN /\ result' = SearchResult(results)
          /\ pc' = "done"
          /\ UNCHANGED <<fi, abs>>
     ELSE IF denyByName(files[fi])
     THEN /\ fi' = fi + 1
          /\ UNCHANGED <<pc, abs, result>>
     ELSE LET r == resolveInRepo(files[fi]) IN
          IF ~r.ok
          THEN /\ result' = Failure(r.error)
               /\ pc' = "done"
               /\ UNCHANGED <<fi, abs>>
          ELSE /\ abs' = r.abs
               /\ pc' = "search_stat"
               /\ UNCHANGED <<fi, result>>
  /\ UNCHANGED <<args, files, lines, li, lastIndex, results, scanned, io,
                 tested, entries>>

\* const stat = await fs.stat(abs); if (stat.size > MAX_FILE_BYTES) continue
SearchStat ==
  /\ pc = "search_stat"
  /\ io' = Append(io, IoEvent("stat", abs))
  /\ \/ /\ result' = Failure("NotFound")
        /\ pc' = "done"
        /\ fi' = fi
     \/ \E size \in Sizes :
          IF size > MAX_FILE_BYTES
          THEN /\ fi' = fi + 1
               /\ pc' = "search_loop"
               /\ result' = result
          ELSE /\ pc' = "search_read"
               /\ UNCHANGED <<fi, result>>
  /\ UNCHANGED <<args, abs, files, lines, li, lastIndex, results, scanned,
                 tested, entries>>

\* const text = await fs.readFile(abs, "utf8"); const lines = text.split(...)
SearchRead ==
  /\ pc = "search_read"
  /\ io' = Append(io, IoEvent("readFile", abs))
  /\ \/ /\ result' = Failure("NotFound")
        /\ pc' = "done"
        /\ UNCHANGED <<lines, li, scanned>>
     \/ \E txt \in Texts :
          /\ lines' = SplitLines(txt)
          /\ li' = 1
          /\ scanned' = Append(scanned, [path |-> files[fi], text |-> txt])
          /\ pc' = "search_scan"
          /\ result' = result
  /\ UNCHANGED <<args, abs, files, fi, lastIndex, results, tested, entries>>

\* if (results.length >= maxMatches) break, inside the loop over lines
InnerBreak(n, maxMatches) == n >= maxMatches

\* a faulty variant of the test below: the second break is missing
OuterBreak_Never(n, maxMatches) == FALSE

\* if (results.length >= maxMatches) break, after the loop over lines
OuterBreak(n, maxMatches) == n >= maxMatches

\* the end of one file: leave the loop over files, or go on to the next file
AfterFile(res) ==
  IF OuterBreak(Len(res), args.maxMatches)
  THEN /\ result' = SearchResult(res)
       /\ pc' = "done"
       /\ fi' = fi
  ELSE /\ fi' = fi + 1
       /\ pc' = "search_loop"
       /\ result' = result

\* one turn of the loop over lines (li is i + 1)
SearchScan ==
  /\ pc = "search_scan"
  /\ IF li > Len(lines)
     THEN /\ AfterFile(results)
          /\ UNCHANGED <<li, lastIndex, results, tested>>
     ELSE LET t == RegExpTest(args.query, lines[li], lastIndex)
              hit == [path |-> files[fi], line |-> li,
                      preview |-> Trim(lines[li])]
          IN /\ tested' = tested + 1
             /\ lastIndex' = t.lastIndex
             /\ IF t.matched
                THEN /\ results' = Append(results, hit)
                     /\ IF InnerBreak(Len(results) + 1, args.maxMatches)
                        THEN /\ AfterFile(Append(results, hit))
                             /\ li' = li
                        ELSE /\ li' = li + 1
                             /\ UNCHANGED <<pc, fi, result>>
                ELSE /\ li' = li + 1
                     /\ UNCHANGED <<results, pc, fi, result>>
  /\ UNCHANGED <<args, abs, files, lines, scanned, io, entries>>

-----------------------------------------------------------------------------
(* repo.tree *)

TreeCall ==
  /\ pc = "idle"
  /\ \E d \in Depths, h \in BOOLEAN :
       args' = [op |-> "tree", depth |-> d, includeHidden |-> h]
  /\ pc' = "tree_glob"
  /\ UNCHANGED <<abs, files, fi, lines, li, lastIndex, results, scanned, io,
                 tested, entries, result>>

\* a faulty variant of the trimming below: the cap before the filter
TreeTrim_SliceFirst(es) ==
  SelectSeq(ArraySlice(es, 0, MAX_TREE_ENTRIES), LAMBDA p : ~denyByName(p))

\* entries.filter((p) => !denyByName(p)).slice(0, MAX_TREE_ENTRIES)
TreeTrim(es) ==
  ArraySlice(SelectSeq(es, LAMBDA p : ~denyByName(p)), 0, MAX_TREE_ENTRIES)

\* const entries = await fg(["**/*"], ...), then the filter, the cap and
\* the answer
TreeGlob ==
  /\ pc = "tree_glob"
  /\ io' = Append(io, IoEvent("glob", REPO_ROOT))
  /\ \E listing \in Listings(args.depth, args.includeHidden) :
       /\ entries' = listing
       /\ result' = [status |-> "ok", root |-> REPO_ROOT,
                     count |-> Len(TreeTrim(listing)),
                     entries |-> TreeTrim(listing)]
  /\ pc' = "done"
  /\ UNCHANGED <<args, abs, files, fi, lines, li, lastIndex, results,
                 scanned, tested>>

-----------------------------------------------------------------------------

Next ==
  \/ ReadCall
  \/ ReadStat
  \/ ReadFile
  \/ SearchCall
  \/ SearchGlob
  \/ SearchRegExp
  \/ SearchLoop
  \/ SearchStat
  \/ SearchRead
  \/ SearchScan
  \/ TreeCall
  \/ TreeGlob

Spec == Init /\ [][Next]_vars

-----------------------------------------------------------------------------
(* Properties *)

RootSegs == Tail(Split(REPO_ROOT, "/"))

\* an absolute path in normal form that is the root or lies below it
AtOrBelowRoot(a) ==
  /\ IsAbsolute(a)
  /\ LET segs == Tail(Split(a, "/"))
     IN /\ \A i \in 1..Len(segs) : segs[i] \notin {<<>>, <<".">>, <<".", ".">>}
        /\ Len(segs) >= Len(RootSegs)
        /\ SubSeq(segs, 1, Len(RootSegs)) = RootSegs

\* where a user path of repo.read points
Location(p) == PathResolve(REPO_ROOT, p)

ReadStarted == args.op = "read" /\ pc # "idle"

\* C1: path containment -- every path resolveInRepo lets through is the root
\* or a descendant of it: a read whose path points outside the root has
\* failed with the path-escape error, and every stat and readFile of read
\* and search is at a path at or below the root.
C1_PathContainment ==
  /\ ReadStarted /\ ~AtOrBelowRoot(Location(args.path))
       => result = Failure("PathEscape")
  /\ abs # <<>> => AtOrBelowRoot(abs)
  /\ \A k \in 1..Len(io) :
       io[k].op \in {"stat", "readFile"} => AtOrBelowRoot(io[k].path)

\* a read of a path with a ".." segment that stays inside the root has
\* reached the file system
C1_Witness ==
  /\ ReadStarted
  /\ <<".", ".">> \in Range(Split(args.path, "/"))
  /\ Len(io) > 0
  /\ io[1].op = "stat"

\* C2: a read of a path under the root whose base name begins with ".env"
\* (in any letter case) fails with AccessDenied before any stat or readFile.
C2_EnvFileDenied ==
  ( /\ ReadStarted
    /\ DENY_FILES_test(PathBasename(args.path))
    /\ AtOrBelowRoot(Location(args.path)) )
  => /\ result = Failure("AccessDenied")
     /\ io = <<>>

\* denied by the deny policy: by a deny glob or by the base name
Denied(rel) == MatchesDenyGlob(rel) \/ denyByName(rel)

\* C3: the deny policy binds all three operations -- tree lists no denied
\* path, search returns no match in a denied path, and read of a denied
\* path under the root does not return content (the least that "fails with
\* AccessDenied instead of returning content" asks for).
C3_DenyPolicyUniform ==
  /\ args.op = "tree" /\ result.status = "ok"
       => \A j \in 1..Len(result.entries) : ~Denied(result.entries[j])
  /\ args.op = "search"
       => \A j \in 1..Len(results) : ~Denied(results[j].path)
  /\ ( /\ args.op = "read"
       /\ AtOrBelowRoot(Location(args.path))
       /\ Denied(PathRelative(REPO_ROOT, Location(args.path))) )
     => result.status # "ok"

\* C4: read range law -- a successful read of a text of N lines returns the
\* lines max(1,s) .. min(N,e) joined by "\n", with totalLines = N and the
\* effective bounds; an omitted s is 1, an omitted e is N; the text is empty
\* when the effective start exceeds N or the effective end; and a read of
\* 1..N is the whole file.
C4_ReadRange ==
  (args.op = "read" /\ result.status = "ok") =>
    LET L == SplitLines(scanned[1].text)
        N == Len(L)
        lo == IF args.startLine = 0 THEN 1 ELSE Max(1, args.startLine)
        hi == IF args.endLine = 0 THEN N ELSE Min(N, args.endLine)
        want == [k \in 1..Max(0, hi - lo + 1) |-> L[lo + k - 1]]
    IN /\ result.text = Join(want, <<"\n">>)
       /\ result.totalLines = N
       /\ result.startLine = lo
       /\ result.endLine = hi
       /\ (lo > N \/ lo > hi) => result.text = <<>>
       /\ (lo = 1 /\ hi = N) => result.text = Join(L, <<"\n">>)

\* a read of lines 2..3 of a text of three lines
C4_Witness ==
  /\ args.op = "read" /\ result.status = "ok"
  /\ args.startLine = 2 /\ args.endLine = 3
  /\ result.totalLines = 3
  /\ result.text # <<>>

\* the matches a complete scan of the texts that were read owes: one per
\* line that holds an occurrence of the query, whatever was scanned before
LineMatches(query, line) == Occurrences(query, line, 0) # {}

RECURSIVE OwedInFile(_, _, _, _)
OwedInFile(query, path, ls, i) ==
  IF i > Len(ls) THEN <<>>
  ELSE (IF LineMatches(query, ls[i])
        THEN << [path |-> path, line |-> i, preview |-> Trim(ls[i])] >>
        ELSE <<>>)
       \o OwedInFile(query, path, ls, i + 1)

RECURSIVE Owed(_, _)
Owed(query, sc) ==
  IF Len(sc) = 0 THEN <<>>
  ELSE OwedInFile(query, Head(sc).path, SplitLines(Head(sc).text), 1)
       \o Owed(query, Tail(sc))

\* C5: search completeness under the cap -- a search that returns fewer
\* than maxMatches results returns exactly one entry per matching line of
\* the files it read, in file order and line order.
C5_SearchComplete ==
  ( /\ args.op = "search" /\ pc = "done" /\ result.status = "ok"
    /\ result.count < args.maxMatches )
  => result.matches = Owed(args.query, scanned)

\* the state half of C6: results never exceed maxMatches, and once they
\* reach it the call has returned successfully with exactly maxMatches
C6_CapState ==
  args.op = "search" =>
    /\ Len(results) <= args.maxMatches
    /\ Len(results) = args.maxMatches =>
         /\ pc = "done"
         /\ result.status = "ok"
         /\ result.count = args.maxMatches
         /\ Len(result.matches) = args.maxMatches

\* the step half of C6: with the cap reached, no step tests a line, stats
\* or reads a file, or adds a result
C6_CapStep ==
  (args.op = "search" /\ Len(results) >= args.maxMatches)
    => (io' = io /\ tested' = tested /\ results' = results)

\* C6: search cap and early stop -- results never exceed maxMatches; once
\* they reach it the call has returned successfully with exactly maxMatches
\* results, and no step after that tests a line, stats or reads a file.
C6_SearchCap == []C6_CapState /\ [][C6_CapStep]_vars

\* the cap was reached with lines of the file and files of the list left
C6_Witness ==
  /\ args.op = "search" /\ pc = "done" /\ result.status = "ok"
  /\ result.count = args.maxMatches
  /\ li < Len(lines)
  /\ fi < Len(files)

\* the indices of the entries the name filter keeps, ascending
KeptIndices(es) ==
  SelectSeq([i \in 1..Len(es) |-> i],
            LAMBDA i : ~DENY_FILES_test(PathBasename(es[i])))

\* C7: tree deny-then-cap -- the result holds no entry with a denied base
\* name and at most 2000 entries; with k non-denied entries enumerated it is
\* the first min(2000, k) of them in enumeration order; the count reported
\* is the number of entries returned, and the call succeeds.
C7_TreeDenyThenCap ==
  (args.op = "tree" /\ pc = "done") =>
    LET keep == KeptIndices(entries)
        n == Min(MAX_TREE_ENTRIES, Len(keep))
    IN /\ result.status = "ok"
       /\ Len(result.entries) = n
       /\ n <= 2000
       /\ result.count = Len(result.entries)
       /\ result.entries = [j \in 1..n |-> entries[keep[j]]]
       /\ \A j \in 1..n : ~denyByName(result.entries[j])

\* more than 2000 entries were kept by the filter, denied ones stood among
\* the first 2000 enumerated, and the result was cut at the cap
C7_Witness ==
  /\ args.op = "tree" /\ pc = "done"
  /\ Len(KeptIndices(entries)) > MAX_TREE_ENTRIES
  /\ \E i \in 1..10 : denyByName(entries[i])
  /\ result.count = MAX_TREE_ENTRIES

\* C8: the path guard accepts every path that points at the root or below
\* it, and hands on that location.
C8_AcceptsInside ==
  (ReadStarted /\ AtOrBelowRoot(Location(args.path)))
  => /\ result # Failure("PathEscape")
     /\ pc \in {"read_stat", "read_file"} => abs = Location(args.path)

\* C9: an invalid regular expression fails the search before any file I/O.
C9_InvalidPatternBeforeIo ==
  result = Failure("InvalidPattern") => io = <<>>

\* C10: a search ends in failure only for an invalid pattern or a path
\* escape; a stat or read that fails for one file leaves the call to succeed.
C10_PerFileFailureSkipped ==
  (args.op = "search" /\ pc = "done")
  => \/ result.status = "ok"
     \/ result \in {Failure("InvalidPattern"), Failure("PathEscape")}

====
